---- MODULE Spec2Model ----
(***************************************************************************)
(* Model of privacyidea/lib/crypto.py: the security-module (HSM) handle    *)
(* kept in the app-local store, the key-bearing functions and SecretObj    *)
(* built on it, the AES envelope helpers, the Sign class and the scaled    *)
(* random helpers.                                                         *)
(*                                                                         *)
(* Byte strings are sequences of numbers 0..255 (Python 2 str, the string  *)
(* type the module is written for: chr()/ord() padding, long()).           *)
(***************************************************************************)
EXTENDS Integers, Sequences, FiniteSets, TLC

\* ------------------------------------------------------------------ bounds
\* Number of request threads sharing the app-local store.
NumThreads == 2

Threads == 1..NumThreads

\* ------------------------------------------------------- byte-string helpers
\* binascii.hexlify: every byte becomes two lower-case hex characters.
HexDigit(d) == IF d < 10 THEN 48 + d ELSE 87 + d

hexlify(b) ==
  [i \in 1..(2 * Len(b)) |->
     IF i % 2 = 1 THEN HexDigit(b[(i + 1) \div 2] \div 16)
                  ELSE HexDigit(b[i \div 2] % 16)]

IsHexChar(c) == c \in 48..57 \/ c \in 97..102 \/ c \in 65..70

HexVal(c) == IF c \in 48..57 THEN c - 48 ELSE IF c \in 97..102 THEN c - 87 ELSE c - 55

\* binascii.unhexlify raises TypeError on odd length or a non-hex character.
CanUnhexlify(s) == Len(s) % 2 = 0 /\ \A i \in 1..Len(s) : IsHexChar(s[i])

unhexlify(s) ==
  [i \in 1..(Len(s) \div 2) |-> 16 * HexVal(s[2 * i - 1]) + HexVal(s[2 * i])]

\* ------------------------------------------------- the security module object
\* The module class lives in lib/security/, outside this file; it is modelled
\* from the SecurityModule contract: readiness, setup, keyed encrypt/decrypt.
NoObj == 0

GoodPassword == "good"
Passwords == {"good", "bad"}

\* A module object right after its class was instantiated.
NewModule(cls, params, ready) ==
  [cls |-> cls, params |-> params, is_ready |-> ready, readied |-> 0]

\* setup_module({"password": p}) on module m: <<m', outcome, return value>>.
\* readied counts the module's transitions from not ready to ready.
SetupModule(m, p) ==
  IF m.is_ready
    THEN << m, "AlreadySetUp", FALSE >>
    ELSE IF p = GoodPassword
      THEN << [m EXCEPT !.is_ready = TRUE, !.readied = @ + 1], "ok", TRUE >>
      ELSE << m, "ok", FALSE >>

RECURSIVE ByteSum(_)
ByteSum(s) == IF s = <<>> THEN 0 ELSE (Head(s) + ByteSum(Tail(s))) % 256

\* The module's raw encrypt: deterministic, keyed by iv and key id, never empty.
ModuleEncrypt(data, iv, id) ==
  <<id + 1>> \o [i \in 1..Len(data) |-> (data[i] + ByteSum(iv) + id + 1) % 256]

\* decrypt fails on input that is no ciphertext of this key id.
ModuleCanDecrypt(ct, id) == Len(ct) >= 1 /\ ct[1] = id + 1

ModuleDecrypt(ct, iv, id) ==
  [i \in 1..(Len(ct) - 1) |-> (ct[i + 1] - ByteSum(iv) - id - 1) % 256]

\* ----------------------------------------------------------- configuration
\* pi.cfg: PI_HSM_MODULE may be absent ("unset"); needs_password tells whether
\* the configured module comes up not ready (encrypted key file, HSM login).
ModuleNames == {"unset", "privacyidea.lib.security.default.DefaultSecurityModule",
                "privacyidea.lib.security.aeshsm.AESHardwareSecurityModule"}

DefaultModuleName == "privacyidea.lib.security.default.DefaultSecurityModule"

Configs == [PI_HSM_MODULE : ModuleNames, needs_password : BOOLEAN]

\* config.get("PI_HSM_MODULE", <default>)
ResolvedModuleName(cfg) ==
  IF cfg.PI_HSM_MODULE = "unset" THEN DefaultModuleName ELSE cfg.PI_HSM_MODULE

\* hsm_module_name.rsplit(".", 1)[1]
ClassName(name) ==
  IF name = DefaultModuleName THEN "DefaultSecurityModule" ELSE "AESHardwareSecurityModule"

\* Mutant: config.get("PI_HSM_MODULE") without the default, no object when unset.
create_hsm_object_nodefault(cfg) ==
  LET class_name == ClassName(ResolvedModuleName(cfg))
  IN  [none |-> cfg.PI_HSM_MODULE = "unset",
       obj  |-> NewModule(class_name, "file", ~cfg.needs_password)]

\* create_hsm_object(config), lines 788-809: none is whether it returns None.
create_hsm_object(cfg) ==
  LET class_name == ClassName(ResolvedModuleName(cfg))
      hsm_parameters == IF class_name = "DefaultSecurityModule"
                          THEN "file" ELSE "PI_HSM_MODULE_*"
  IN  [none |-> FALSE,
       obj  |-> NewModule(class_name, hsm_parameters, ~cfg.needs_password)]

\* ------------------------------------------------------------------- state
VARIABLES
  config,     \* get_app_config()
  callers,    \* the threads that issue calls
  app_store,  \* app_store["pi_hsm"]["obj"]: NoObj when the key is absent
  objs,       \* every module object constructed so far, in order
  pc,         \* per thread: the line it is at
  op,         \* per thread: the function it was called with
  arg,        \* per thread: the call's arguments
  hsm,        \* per thread: the local variable hsm
  newobj,     \* per thread: HSM_config["obj"] between construction and store
  result,     \* per thread: the outcome of the call
  snap,       \* per thread: the module state seen at set_hsm_password's check
  sec,        \* the SecretObj
  ghost,      \* history: what has happened so far
  calc        \* the call of a module-independent function under study

hsmvars == <<config, callers, app_store, objs, pc, op, arg, hsm, newobj, result,
             snap, sec, ghost>>

vars == <<hsmvars, calc>>

NoCalc == [fn |-> "none"]

\* ------------------------------------------------------------ SecretObj data
RawKeys == {<<171, 18>>, <<171, 19>>}
IV == <<7, 9>>
ValKinds == {"EncRaw", "EncHex", "HexEncRaw"}

\* The stored value of a handle for raw_key, by how the caller built it.
StoredVal(kind, raw_key) ==
  CASE kind = "EncRaw"    -> ModuleEncrypt(raw_key, IV, 0)
    [] kind = "EncHex"    -> ModuleEncrypt(hexlify(raw_key), IV, 0)
    [] kind = "HexEncRaw" -> hexlify(ModuleEncrypt(raw_key, IV, 0))

\* SecretObj.__init__(val, iv, preserve): bkey is None.
SecretObjInit(val, iv, preserve) ==
  [val |-> val, iv |-> iv, bkey |-> <<>>, has_bkey |-> "None", preserve |-> preserve,
   zeroed |-> 0]

NoArg == [rr |-> TRUE, pw |-> "", data |-> <<>>]
NoResult == [st |-> "none", val |-> <<>>, obj |-> NoObj, flag |-> FALSE]
NoSnap == [taken |-> FALSE, ready |-> FALSE, objs |-> <<>>, store |-> NoObj]

KeyOps == {"encryptPassword", "encryptPin", "decryptPassword", "decryptPin",
           "encrypt", "decrypt", "geturandom"}
SecOps == {"getKey", "getPin", "compare", "hmac_digest", "aes_decrypt"}
Ops == {"get_hsm", "set_hsm_password"} \cup KeyOps \cup SecOps

\* The AES envelope helpers and the Sign operations.
EnvOps == {"aes_encrypt", "crypto.aes_decrypt", "aes_encrypt_b64", "aes_decrypt_b64",
           "Sign.sign", "Sign.verify"}

\* Variant in which every helper fetches random bytes from the module.
NeedsModuleAll(o) == TRUE

\* line 489: iv = geturandom(16), the one call into the module among them.
NeedsModule(o) == o = "aes_encrypt_b64"

\* Arguments a call of o may be made with.
ArgsOf(o) ==
  CASE o = "get_hsm"          -> {[NoArg EXCEPT !.rr = r] : r \in BOOLEAN}
    [] o = "set_hsm_password" -> {[NoArg EXCEPT !.pw = p] : p \in Passwords}
    [] o \in {"encrypt", "encryptPin", "encryptPassword"}
                              -> {[NoArg EXCEPT !.data = <<171, 18>>]}
    [] o \in {"decrypt", "decryptPin", "decryptPassword"}
                              -> {[NoArg EXCEPT !.data = d] :
                                    d \in {ModuleEncrypt(<<171, 18>>, IV, 0), <<0>>}}
    [] o = "compare"          -> {[NoArg EXCEPT !.data = hexlify(k)] : k \in RawKeys}
    [] OTHER                  -> {NoArg}

\* "FAILED TO ENCRYPT PASSWORD!" / FAILED_TO_DECRYPT_PASSWORD
FailedMarker == <<70>>

RandBytes == {0, 255}

Done(t, st, val, obj, flag) ==
  /\ pc' = [pc EXCEPT ![t] = "done"]
  /\ result' = [result EXCEPT ![t] = [st |-> st, val |-> val, obj |-> obj, flag |-> flag]]

\* ----------------------------------------------------------------- init_hsm
\* line 301: "pi_hsm" not in app_store or not isinstance(app_store["pi_hsm"], dict)
InitCheck(t) ==
  /\ t \in callers
  /\ pc[t] = "init_check"
  /\ pc' = [pc EXCEPT ![t] = IF app_store.present THEN "init_ret" ELSE "init_create"]
  /\ UNCHANGED <<calc, config, callers, app_store, objs, op, arg, hsm, newobj, result,
                 snap, sec, ghost>>

\* lines 302-303: HSM_config = {"obj": create_hsm_object(config)}
InitCreate(t) ==
  /\ t \in callers
  /\ pc[t] = "init_create"
  /\ LET r == create_hsm_object(config)
     IN  IF r.none
           THEN /\ objs' = objs
                /\ newobj' = [newobj EXCEPT ![t] = NoObj]
           ELSE /\ objs' = Append(objs, r.obj)
                /\ newobj' = [newobj EXCEPT ![t] = Len(objs) + 1]
  /\ pc' = [pc EXCEPT ![t] = "init_store"]
  /\ UNCHANGED <<calc, config, callers, app_store, op, arg, hsm, result, snap, sec, ghost>>

\* line 304: app_store["pi_hsm"] = HSM_config
InitStore(t) ==
  /\ t \in callers
  /\ pc[t] = "init_store"
  /\ app_store' = [present |-> TRUE, obj |-> newobj[t]]
  /\ newobj' = [newobj EXCEPT ![t] = NoObj]
  /\ pc' = [pc EXCEPT ![t] = "init_ret"]
  /\ UNCHANGED <<calc, config, callers, objs, op, arg, hsm, result, snap, sec, ghost>>

\* line 306: return app_store["pi_hsm"]["obj"]
InitRet(t) ==
  /\ t \in callers
  /\ pc[t] = "init_ret"
  /\ hsm' = [hsm EXCEPT ![t] = app_store.obj]
  /\ pc' = [pc EXCEPT ![t] = IF op[t] = "set_hsm_password" THEN "set_check" ELSE "get_check"]
  /\ UNCHANGED <<calc, config, callers, app_store, objs, op, arg, newobj, result, snap,
                 sec, ghost>>

\* ------------------------------------------------------------------ get_hsm
\* Mutant: the readiness check of line 320 left out.
get_hsm_unchecked(h, require_ready, os) ==
  IF h = NoObj THEN "NotInitialized" ELSE "ok"

\* lines 318-322: the outcome of get_hsm for the object h that init_hsm returned.
get_hsm(h, require_ready, os) ==
  IF h = NoObj THEN "NotInitialized"
  ELSE IF require_ready /\ ~os[h].is_ready THEN "NotReady"
  ELSE "ok"

GetCheck(t) ==
  /\ t \in callers
  /\ pc[t] = "get_check"
  /\ LET out == get_hsm(hsm[t], arg[t].rr, objs)
     IN  IF out # "ok" THEN Done(t, out, <<>>, NoObj, FALSE)
         ELSE IF op[t] = "get_hsm" THEN Done(t, "ok", <<>>, hsm[t], FALSE)
         ELSE /\ pc' = [pc EXCEPT ![t] = "call"]
              /\ result' = result
  /\ UNCHANGED <<calc, config, callers, app_store, objs, op, arg, hsm, newobj, snap, sec, ghost>>

\* --------------------------------------------------------- set_hsm_password
\* Mutant: the already-set-up check of lines 332-333 left out.
set_hsm_password_never_raises(m) == FALSE

\* lines 332-333: whether set_hsm_password raises instead of delegating.
set_hsm_password_raises(m) == m.is_ready

SetCheck(t) ==
  /\ t \in callers
  /\ pc[t] = "set_check"
  /\ IF hsm[t] = NoObj
       THEN /\ Done(t, "AttributeError", <<>>, NoObj, FALSE)
            /\ snap' = snap
       ELSE /\ snap' = [snap EXCEPT ![t] = [taken |-> TRUE, ready |-> objs[hsm[t]].is_ready,
                                            objs |-> objs, store |-> app_store.obj]]
            /\ IF set_hsm_password_raises(objs[hsm[t]])
                 THEN Done(t, "AlreadySetUp", <<>>, NoObj, FALSE)
                 ELSE /\ pc' = [pc EXCEPT ![t] = "set_setup"]
                      /\ result' = result
  /\ UNCHANGED <<calc, config, callers, app_store, objs, op, arg, hsm, newobj, sec, ghost>>

\* line 334: return hsm.setup_module({"password": password})
SetSetup(t) ==
  /\ t \in callers
  /\ pc[t] = "set_setup"
  /\ LET r == SetupModule(objs[hsm[t]], arg[t].pw)
     IN  /\ objs' = [objs EXCEPT ![hsm[t]] = r[1]]
         /\ Done(t, r[2], <<>>, hsm[t], r[3])
         /\ ghost' = [ghost EXCEPT !.setupOk = @ \/ (r[2] = "ok" /\ r[3]),
                                   !.setupOnReady = @ \/ objs[hsm[t]].is_ready]
  /\ UNCHANGED <<calc, config, callers, app_store, op, arg, hsm, newobj, snap, sec>>

\* ------------------------------------------- the key-bearing module methods
\* What the module method behind operation o returns on a ready module:
\* <<outcome, value, flag>>. rnd is the byte hsm.random() happens to draw.
ModuleCall(o, a, so, rnd) ==
  CASE o \in {"encrypt", "encryptPin", "encryptPassword"}
         -> << "ok", ModuleEncrypt(a.data, IV, 0), FALSE >>
    [] o \in {"decrypt", "decryptPin", "decryptPassword"}
         -> IF ModuleCanDecrypt(a.data, 0)
              THEN << "ok", ModuleDecrypt(a.data, IV, 0), FALSE >>
              ELSE << "DecryptionFailure", <<>>, FALSE >>
    [] o = "geturandom"
         -> << "ok", <<rnd>>, FALSE >>
    [] o \in EnvOps
         \* geturandom(16)
         -> << "ok", [i \in 1..16 |-> rnd], FALSE >>
    [] o \in {"getKey", "getPin", "hmac_digest", "aes_decrypt"}
         \* decrypt(self.val, self.iv)
         -> IF ModuleCanDecrypt(so.val, 0)
              THEN << "ok", ModuleDecrypt(so.val, so.iv, 0), FALSE >>
              ELSE << "DecryptionFailure", <<>>, FALSE >>
    [] o = "compare"
         \* lines 121-124
         -> << "ok", <<>>,
               hexlify(ModuleEncrypt(unhexlify(a.data), so.iv, 0)) = so.val >>

\* encryptPassword / decryptPassword wrap the module call in try/except and
\* return a marker string instead of raising (lines 341-346, 376-380).
Swallows(o) == o \in {"encryptPassword", "decryptPassword"}

\* lines 342, 352, 377, 393, 413, 432, 524: ret = hsm.<method>(...)
Call(t) ==
  /\ t \in callers
  /\ pc[t] = "call"
  /\ \E rnd \in (IF op[t] \in {"geturandom"} \cup EnvOps THEN RandBytes ELSE {0}) :
       LET m == objs[hsm[t]]
           r == IF m.is_ready THEN ModuleCall(op[t], arg[t], sec, rnd)
                              ELSE << "NotReady", <<>>, FALSE >>
       IN  /\ ghost' = [ghost EXCEPT !.calledUnready = @ \/ ~m.is_ready]
           /\ IF r[1] # "ok" /\ Swallows(op[t])
                THEN Done(t, "ok", FailedMarker, NoObj, FALSE)
              ELSE IF r[1] = "ok" /\ op[t] \in {"hmac_digest", "aes_decrypt"}
                THEN /\ pc' = [pc EXCEPT ![t] = "sk_store"]
                     /\ result' = [result EXCEPT ![t] = [NoResult EXCEPT !.val = r[2]]]
              ELSE IF r[1] = "ok" /\ op[t] \in EnvOps
                THEN /\ pc' = [pc EXCEPT ![t] = "env"]
                     /\ result' = [result EXCEPT ![t] = [NoResult EXCEPT !.val = r[2]]]
              ELSE Done(t, r[1], r[2], NoObj, r[3])
  /\ UNCHANGED <<calc, config, callers, app_store, objs, op, arg, hsm, newobj, snap, sec>>

\* ------------------------------------------------------------------ SecretObj
\* line 158: if self.bkey is None (AttributeError once the attribute is deleted)
SkTest(t) ==
  /\ t \in callers
  /\ pc[t] = "sk_test"
  /\ IF sec.has_bkey = "Deleted" THEN Done(t, "AttributeError", <<>>, NoObj, FALSE)
     ELSE /\ pc' = [pc EXCEPT ![t] = IF sec.has_bkey = "None" THEN "init_check" ELSE "use"]
          /\ result' = result
  /\ UNCHANGED <<calc, config, callers, app_store, objs, op, arg, hsm, newobj, snap, sec, ghost>>

\* lines 160-162: self.bkey = binascii.unhexlify(akey); zerome(akey)
SkStore(t) ==
  /\ t \in callers
  /\ pc[t] = "sk_store"
  /\ IF CanUnhexlify(result[t].val)
       THEN /\ sec' = [sec EXCEPT !.bkey = unhexlify(result[t].val), !.has_bkey = "Set"]
            /\ pc' = [pc EXCEPT ![t] = "use"]
            /\ result' = [result EXCEPT ![t] = NoResult]
       ELSE /\ sec' = sec
            /\ Done(t, "TypeError", <<>>, NoObj, FALSE)
  /\ UNCHANGED <<calc, config, callers, app_store, objs, op, arg, hsm, newobj, snap, ghost>>

\* lines 131 and 145-146: the digest or the ECB decryption under self.bkey,
\* kept as the pair of the operation's name sum and the key that was used.
Use(t) ==
  /\ t \in callers
  /\ pc[t] = "use"
  /\ result' = [result EXCEPT ![t] = [NoResult EXCEPT !.val = sec.bkey]]
  /\ pc' = [pc EXCEPT ![t] = "clear"]
  /\ UNCHANGED <<calc, config, callers, app_store, objs, op, arg, hsm, newobj, snap, sec, ghost>>

\* Variant of _clearKey_ that deletes the attribute without zerome.
clearKeyNoZero(so, preserve) ==
  IF preserve = FALSE /\ so.has_bkey = "Set"
    THEN [so EXCEPT !.has_bkey = "Deleted"]
    ELSE so

\* line 165: "self.bkey is not None" is evaluated when preserve is False and
\* raises AttributeError once the attribute is deleted.
clearKeyRaises(so, preserve) == preserve = FALSE /\ so.has_bkey = "Deleted"

\* lines 164-167: _clearKey_(preserve): zerome(self.bkey); del self.bkey
clearKey(so, preserve) ==
  IF preserve = FALSE /\ so.has_bkey = "Set"
    THEN [so EXCEPT !.bkey = [i \in 1..Len(so.bkey) |-> 0], !.has_bkey = "Deleted",
                    !.zeroed = @ + 1]
    ELSE so

\* lines 134-135 and 147-148: self._clearKey_(preserve=self.preserve); return
Clear(t) ==
  /\ t \in callers
  /\ pc[t] = "clear"
  /\ sec' = clearKey(sec, sec.preserve)
  /\ Done(t, "ok", result[t].val, NoObj, FALSE)
  /\ UNCHANGED <<calc, config, callers, app_store, objs, op, arg, hsm, newobj, snap, ghost>>

\* The handle belongs to one thread: SecretObj is not thread-safe.
SecOwner == 1

\* lines 171-172: __del__ when the owner drops the handle: self._clearKey_().
\* An exception raised in __del__ is reported by the interpreter, not
\* propagated.
Del(t) ==
  /\ t \in callers
  /\ t = SecOwner
  /\ pc[t] = "idle"
  /\ sec.alive
  /\ sec' = IF clearKeyRaises(sec, FALSE)
              THEN [sec EXCEPT !.alive = FALSE, !.del_error = TRUE]
              ELSE [clearKey(sec, FALSE) EXCEPT !.alive = FALSE]
  /\ UNCHANGED <<calc, config, callers, app_store, objs, pc, op, arg, hsm, newobj, result,
                 snap, ghost>>

\* ------------------------------------------------------------ calls, returns
Start(t) ==
  /\ t \in callers
  /\ pc[t] = "idle"
  /\ \E o \in Ops : \E a \in ArgsOf(o) :
       /\ o \in SecOps => (t = SecOwner /\ sec.alive)
       /\ op' = [op EXCEPT ![t] = o]
       /\ arg' = [arg EXCEPT ![t] = a]
       /\ pc' = [pc EXCEPT ![t] = IF o \in {"hmac_digest", "aes_decrypt"}
                                    THEN "sk_test" ELSE "init_check"]
  /\ UNCHANGED <<calc, config, callers, app_store, objs, hsm, newobj, result, snap, sec, ghost>>

Return(t) ==
  /\ t \in callers
  /\ pc[t] = "done"
  /\ pc' = [pc EXCEPT ![t] = "idle"]
  /\ op' = [op EXCEPT ![t] = "none"]
  /\ arg' = [arg EXCEPT ![t] = NoArg]
  /\ hsm' = [hsm EXCEPT ![t] = NoObj]
  /\ result' = [result EXCEPT ![t] = NoResult]
  /\ snap' = [snap EXCEPT ![t] = NoSnap]
  /\ UNCHANGED <<calc, config, callers, app_store, objs, newobj, sec, ghost>>

\* ------------------------------------------------------------ specifications
InitWith(cs, keys, kinds) ==
  /\ calc = NoCalc
  /\ config \in Configs
  /\ callers = cs
  /\ app_store = [present |-> FALSE, obj |-> NoObj]
  /\ objs = <<>>
  /\ pc = [t \in Threads |-> "idle"]
  /\ op = [t \in Threads |-> "none"]
  /\ arg = [t \in Threads |-> NoArg]
  /\ hsm = [t \in Threads |-> NoObj]
  /\ newobj = [t \in Threads |-> NoObj]
  /\ result = [t \in Threads |-> NoResult]
  /\ snap = [t \in Threads |-> NoSnap]
  /\ \E k \in keys, kind \in kinds, p \in BOOLEAN :
       sec = [raw_key |-> k, kind |-> kind, alive |-> TRUE, del_error |-> FALSE]
               @@ SecretObjInit(StoredVal(kind, k), IV, p)
  /\ ghost = [setupOk |-> FALSE, setupOnReady |-> FALSE, calledUnready |-> FALSE]

\* Several request threads share the process; the handle they use is one
\* built the way _setupKey_ reads it.
Init == InitWith(Threads, {<<171, 18>>}, {"EncHex"})

\* One caller: the calls come one after the other.
InitSeq == InitWith({1}, RawKeys, ValKinds)

Next ==
  \E t \in Threads :
    \/ Start(t)
    \/ InitCheck(t)
    \/ InitCreate(t)
    \/ InitStore(t)
    \/ InitRet(t)
    \/ GetCheck(t)
    \/ SetCheck(t)
    \/ SetSetup(t)
    \/ Call(t)
    \/ SkTest(t)
    \/ SkStore(t)
    \/ Use(t)
    \/ Clear(t)
    \/ Del(t)
    \/ Return(t)

Spec == Init /\ [][Next]_vars

SpecSeq == InitSeq /\ [][Next]_vars

\* The security-module state of a process in which none of its functions runs.
HsmQuiet ==
  /\ config = [PI_HSM_MODULE |-> "unset", needs_password |-> FALSE]
  /\ callers = {}
  /\ app_store = [present |-> FALSE, obj |-> NoObj]
  /\ objs = <<>>
  /\ pc = [t \in Threads |-> "idle"]
  /\ op = [t \in Threads |-> "none"]
  /\ arg = [t \in Threads |-> NoArg]
  /\ hsm = [t \in Threads |-> NoObj]
  /\ newobj = [t \in Threads |-> NoObj]
  /\ result = [t \in Threads |-> NoResult]
  /\ snap = [t \in Threads |-> NoSnap]
  /\ sec = [raw_key |-> <<171, 18>>, kind |-> "EncHex", alive |-> TRUE, del_error |-> FALSE]
             @@ SecretObjInit(StoredVal("EncHex", <<171, 18>>), IV, TRUE)
  /\ ghost = [setupOk |-> FALSE, setupOnReady |-> FALSE, calledUnready |-> FALSE]

\* ========================================================= AES envelope helpers
\* Longest plaintext tried.
MaxDataLen == 33

\* AES.block_size
BlockSize == 16

RECURSIVE XorBits(_, _, _)
XorBits(a, b, n) ==
  IF n = 0 THEN 0
  ELSE (((a % 2) + (b % 2)) % 2) + 2 * XorBits(a \div 2, b \div 2, n - 1)

Xor(a, b) == XorBits(a, b, 8)

\* The block cipher of AES.new(key, ...): a keyed permutation of 16-byte
\* blocks, here a byte substitution (invertible: 5 * 205 = 1 mod 256) and a
\* rotation of the block.
SubByte(key, x) == (5 * x + ByteSum(key)) % 256
InvSubByte(key, y) == (205 * (y - ByteSum(key))) % 256

EncBlock(key, blk) == [i \in 1..BlockSize |-> SubByte(key, blk[(i % BlockSize) + 1])]
DecBlock(key, blk) ==
  [i \in 1..BlockSize |-> InvSubByte(key, blk[((i + BlockSize - 2) % BlockSize) + 1])]

XorBlock(x, y) == [i \in 1..BlockSize |-> Xor(x[i], y[i])]

Block(data, j) == SubSeq(data, (j - 1) * BlockSize + 1, j * BlockSize)

\* aes.encrypt(data) in CBC mode: C_j = E(P_j xor C_(j-1)), C_0 = iv.
RECURSIVE CbcEncrypt(_, _, _)
CbcEncrypt(key, prev, data) ==
  IF data = <<>> THEN <<>>
  ELSE LET c == EncBlock(key, XorBlock(SubSeq(data, 1, BlockSize), prev))
       IN  c \o CbcEncrypt(key, c, SubSeq(data, BlockSize + 1, Len(data)))

\* aes.decrypt(cipherdata) in CBC mode: P_j = D(C_j) xor C_(j-1).
RECURSIVE CbcDecrypt(_, _, _)
CbcDecrypt(key, prev, ct) ==
  IF ct = <<>> THEN <<>>
  ELSE LET c == SubSeq(ct, 1, BlockSize)
       IN  XorBlock(DecBlock(key, c), prev)
             \o CbcDecrypt(key, c, SubSeq(ct, BlockSize + 1, Len(ct)))

\* Mutant: no padding block when the data already fills its last block.
NumPadNoFullBlock(len) == (BlockSize - (len % BlockSize)) % BlockSize

\* line 473: num_pad = aes.block_size - (len(data) % aes.block_size)
NumPad(len) == BlockSize - (len % BlockSize)

\* aes_encrypt(key, iv, data), lines 471-476. The library raises ValueError
\* for input that is not a multiple of the block size.
aes_encrypt(key, iv, data) ==
  LET num_pad == NumPad(Len(data))
      padded  == data \o [i \in 1..num_pad |-> num_pad]
  IN  IF Len(padded) % BlockSize # 0
        THEN [st |-> "ValueError", padded |-> padded, out |-> <<>>]
        ELSE [st |-> "ok", padded |-> padded, out |-> CbcEncrypt(key, iv, padded)]

\* output[0:-padding]: Python's slice with a negative (or zero) end.
SliceToMinus(s, n) ==
  IF n = 0 THEN <<>> ELSE SubSeq(s, 1, IF Len(s) > n THEN Len(s) - n ELSE 0)

\* aes_decrypt(key, iv, cipherdata), lines 450-455. output[-1] raises
\* IndexError on an empty string.
aes_decrypt(key, iv, cipherdata) ==
  IF Len(cipherdata) % BlockSize # 0 THEN [st |-> "ValueError", out |-> <<>>]
  ELSE LET output == CbcDecrypt(key, iv, cipherdata)
       IN  IF output = <<>> THEN [st |-> "IndexError", out |-> <<>>]
           ELSE [st |-> "ok", out |-> SliceToMinus(output, output[Len(output)])]

\* Inputs: keys of the three AES key lengths, 16-byte ivs, and data of every
\* length up to MaxDataLen whose bytes include values that look like padding.
AesKeys == {[i \in 1..16 |-> 3], [i \in 1..24 |-> 200], [i \in 1..32 |-> i]}
AesIVs == {[i \in 1..16 |-> 0], [i \in 1..16 |-> (17 * i) % 256]}
DataBytes == {0, 1, 16, 255}
AesData ==
  {[i \in 1..n |-> IF i = n THEN last ELSE fill] :
     n \in 0..MaxDataLen, fill \in {1, 255}, last \in DataBytes}

InitAes ==
  /\ HsmQuiet
  /\ \E k \in AesKeys, iv \in AesIVs, d \in AesData :
       calc = [fn |-> "aes", stage |-> "input", key |-> k, iv |-> iv, data |-> d,
               st |-> "none", padded |-> <<>>, ct |-> <<>>, out |-> <<>>]

AesEncryptStep ==
  /\ calc.fn = "aes" /\ calc.stage = "input"
  /\ LET r == aes_encrypt(calc.key, calc.iv, calc.data)
     IN  calc' = [calc EXCEPT !.stage = IF r.st = "ok" THEN "encrypted" ELSE "failed",
                              !.st = r.st, !.padded = r.padded, !.ct = r.out]
  /\ UNCHANGED hsmvars

AesDecryptStep ==
  /\ calc.fn = "aes" /\ calc.stage = "encrypted"
  /\ LET r == aes_decrypt(calc.key, calc.iv, calc.ct)
     IN  calc' = [calc EXCEPT !.stage = IF r.st = "ok" THEN "decrypted" ELSE "failed",
                              !.st = r.st, !.out = r.out]
  /\ UNCHANGED hsmvars

NextAes == AesEncryptStep \/ AesDecryptStep

SpecAes == InitAes /\ [][NextAes]_vars

\* ======================================================================= Sign
\* Longest message tried.
MaxMsgLen == 2

\* RSA key pairs (n, e, d) of a two-byte modulus, as RSA.importKey reads them
\* from the matching private and public key files.
KeyPairs == {[n |-> 3233, e |-> 17, d |-> 2753], [n |-> 2773, e |-> 17, d |-> 157]}

RECURSIVE ModExp(_, _, _)
ModExp(b, e, m) ==
  IF e = 0 THEN 1 % m
  ELSE LET h == ModExp(b, e \div 2, m)
           sq == (h * h) % m
       IN  IF e % 2 = 1 THEN (sq * (b % m)) % m ELSE sq

\* s.encode('utf8') of a text of code points below 2048.
RECURSIVE Utf8(_)
Utf8(cps) ==
  IF cps = <<>> THEN <<>>
  ELSE (IF Head(cps) < 128 THEN <<Head(cps)>>
        ELSE <<192 + (Head(cps) \div 64), 128 + (Head(cps) % 64)>>) \o Utf8(Tail(cps))

\* lines 736-737, 757-758: text is encoded, a byte string is taken as it is.
MsgBytes(m) == IF m.kind = "text" THEN Utf8(m.chars) ELSE m.chars

\* HashFunc.new(s).digest(): a one-byte digest of the message bytes.
RECURSIVE DigestFrom(_, _)
DigestFrom(h, s) ==
  IF s = <<>> THEN h ELSE DigestFrom((31 * h + Head(s) + 1) % 256, Tail(s))

Digest(s) == DigestFrom(7, s)

\* str(<long>): the decimal digits, as characters.
RECURSIVE DecStr(_)
DecStr(n) == IF n < 10 THEN <<48 + n>> ELSE DecStr(n \div 10) \o <<48 + (n % 10)>>

\* long(<str>): fails with ValueError unless the string is a decimal number.
CanParseLong(s) == s # <<>> /\ \A i \in 1..Len(s) : s[i] \in 48..57

RECURSIVE ParseLong(_)
ParseLong(s) ==
  IF s = <<>> THEN 0 ELSE 10 * ParseLong(SubSeq(s, 1, Len(s) - 1)) + (s[Len(s)] - 48)

\* pkcs1_15.new(RSAkey).sign(hashvalue): the encoded digest (01 || digest)
\* raised to d, as a byte string as long as the modulus.
PkcsSign(kp, digest) ==
  LET sig == ModExp(256 + digest, kp.d, kp.n) IN <<sig \div 256, sig % 256>>

\* Sign.sign(s), lines 736-746: the returned string.
sign(kp, sign_with_rsa, m) ==
  LET hashvalue == Digest(MsgBytes(m))
  IN  IF sign_with_rsa
        \* signature = RSAkey.sign(hashvalue, 1), a tuple; str(signature[0])
        THEN DecStr(ModExp(hashvalue, kp.d, kp.n))
        \* signature = pkcs1_15...sign(hashvalue), a byte string;
        \* str(signature[0]) is its first character
        ELSE <<PkcsSign(kp, hashvalue)[1]>>

\* Sign.verify(s, signature), lines 757-772: the returned r. Every exception
\* is caught and leaves r as it was set at line 759.
verify(kp, sign_with_rsa, m, signature) ==
  LET hashvalue == Digest(MsgBytes(m))
      r0 == FALSE
  IN  IF ~CanParseLong(signature) THEN r0                 \* long() raises
      ELSE IF sign_with_rsa
        THEN ModExp(ParseLong(signature), kp.e, kp.n) = hashvalue
        \* pkcs1_15...verify(hashvalue, <long>) raises or returns None:
        \* r is not assigned on this branch
        ELSE r0

MsgChars == {97, 233}

RECURSIVE SeqsUpTo(_, _)
SeqsUpTo(S, n) ==
  IF n = 0 THEN {<<>>}
  ELSE LET shorter == SeqsUpTo(S, n - 1)
       IN  shorter \cup {Append(q, x) : q \in shorter, x \in S}

Messages == [kind : {"text", "bytes"}, chars : SeqsUpTo(MsgChars, MaxMsgLen)]

InitSign ==
  /\ HsmQuiet
  /\ \E kp \in KeyPairs, b \in BOOLEAN, m \in Messages :
       calc = [fn |-> "sign", stage |-> "input", kp |-> kp, SIGN_WITH_RSA |-> b,
               msg |-> m, signature |-> <<>>, r |-> FALSE]

SignStep ==
  /\ calc.fn = "sign" /\ calc.stage = "input"
  /\ calc' = [calc EXCEPT !.stage = "signed",
                          !.signature = sign(calc.kp, calc.SIGN_WITH_RSA, calc.msg)]
  /\ UNCHANGED hsmvars

VerifyStep ==
  /\ calc.fn = "sign" /\ calc.stage = "signed"
  /\ calc' = [calc EXCEPT !.stage = "verified",
                          !.r = verify(calc.kp, calc.SIGN_WITH_RSA, calc.msg, calc.signature)]
  /\ UNCHANGED hsmvars

NextSign == SignStep \/ VerifyStep

SpecSign == InitSign /\ [][NextSign]_vars

\* =================================================================== urandom
\* Bytes urandom.random() draws (urandom.precision is 12 in the program) and
\* bits of a float's mantissa (53 in the program): scaled down together, the
\* random integer staying wider than the mantissa.
PrecisionBytes == 1
MantissaBits == 5

\* Largest absolute value of randint's arguments tried.
MaxAbs == 3

RECURSIVE Pow2(_)
Pow2(n) == IF n = 0 THEN 1 ELSE 2 * Pow2(n - 1)

\* int(randhex, 16)
RECURSIVE HexToInt(_)
HexToInt(s) ==
  IF s = <<>> THEN 0 ELSE 16 * HexToInt(SubSeq(s, 1, Len(s) - 1)) + HexVal(s[Len(s)])

RECURSIVE BitLen(_)
BitLen(m) == IF m = 0 THEN 0 ELSE 1 + BitLen(m \div 2)

\* A float is kept as its numerator over IntMax. Rounding of an exact result
\* to the nearest float: MantissaBits significant bits, ties to even.
RoundMag(m) ==
  IF BitLen(m) <= MantissaBits THEN m
  ELSE LET shift == BitLen(m) - MantissaBits
           unit  == Pow2(shift)
           q     == m \div unit
           rem   == m % unit
           up    == rem * 2 > unit \/ (rem * 2 = unit /\ q % 2 = 1)
       IN  (IF up THEN q + 1 ELSE q) * unit

RoundFloat(x) == IF x >= 0 THEN RoundMag(x) ELSE 0 - RoundMag(0 - x)

IntMax == Pow2(8 * PrecisionBytes)

\* int(<float>): truncation toward zero.
FloatToInt(x) == IF x >= 0 THEN x \div IntMax ELSE 0 - ((0 - x) \div IntMax)

\* urandom.random(), lines 545-556, for the bytes hsm.random(precision) drew:
\* randi = int(randhex, 16) * 1.0; randf = randi / intmax.
urandom_random(bytes) == RoundFloat(HexToInt(hexlify(bytes)))

\* urandom.randint(start, end), lines 594-609; has_end is FALSE for end=None.
randint(start0, end0, has_end, bytes) ==
  LET end    == IF has_end THEN end0 ELSE start0
      start1 == IF has_end THEN start0 ELSE 0
      dist0  == end - start1
      dist   == IF dist0 < 0 THEN dist0 * (0 - 1) ELSE dist0
      start  == IF dist0 < 0 THEN end ELSE start1
      randf  == urandom_random(bytes)
  IN  FloatToInt(RoundFloat(start * IntMax + RoundFloat(randf * dist)))

AllBytes == 0..255

RECURSIVE ByteStrings(_, _)
ByteStrings(S, n) ==
  IF n = 0 THEN {<<>>} ELSE {Append(q, x) : q \in ByteStrings(S, n - 1), x \in S}

InitRandint ==
  /\ HsmQuiet
  /\ \E a \in (0 - MaxAbs)..MaxAbs, b \in (0 - MaxAbs)..MaxAbs, he \in BOOLEAN :
       calc = [fn |-> "randint", stage |-> "input", start |-> a,
               end |-> IF he THEN b ELSE 0, has_end |-> he, bytes |-> <<>>, ret |-> 0]

RandintStep ==
  /\ calc.fn = "randint" /\ calc.stage = "input"
  /\ \E bytes \in ByteStrings(AllBytes, PrecisionBytes) :
       calc' = [calc EXCEPT !.stage = "done", !.bytes = bytes,
                            !.ret = randint(calc.start, calc.end, calc.has_end, bytes)]
  /\ UNCHANGED hsmvars

NextRandint == RandintStep

SpecRandint == InitRandint /\ [][NextRandint]_vars

\* --------------------------------------------------------- get_rand_digit_str
\* Longest digit string asked for.
MaxDigits == 6

\* line 655: clen = int(length / 2.4 + 0.5)
DigitBytesNeeded(length) == (10 * length + 12) \div 24

\* Mutant: the truncation of lines 660-661 left out.
FitDigitsNoTruncation(s, length) ==
  IF Len(s) < length THEN [i \in 1..(length - Len(s)) |-> 48] \o s ELSE s

\* lines 658-661: left-pad with "0" or cut to length characters.
FitDigits(s, length) ==
  IF Len(s) < length THEN [i \in 1..(length - Len(s)) |-> 48] \o s
  ELSE IF Len(s) > length THEN SubSeq(s, 1, length)
  ELSE s

\* get_rand_digit_str(length), lines 653-662, for the bytes the module drew.
\* int('', 16) raises ValueError.
get_rand_digit_str(length, bytes) ==
  IF length = 1 THEN [st |-> "ValueError", raw |-> <<>>, s |-> <<>>]
  ELSE LET randd == hexlify(bytes)
       IN  IF randd = <<>> THEN [st |-> "ValueError", raw |-> <<>>, s |-> <<>>]
           ELSE LET raw == DecStr(HexToInt(randd))
                IN  [st |-> "ok", raw |-> raw, s |-> FitDigits(raw, length)]

DigitBytes == {0, 9, 10, 99, 255}

InitDigits ==
  /\ HsmQuiet
  /\ \E n \in 0..MaxDigits :
       calc = [fn |-> "digits", stage |-> "input", length |-> n, bytes |-> <<>>,
               st |-> "none", raw |-> <<>>, s |-> <<>>]

DigitsStep ==
  /\ calc.fn = "digits" /\ calc.stage = "input"
  /\ \E bytes \in ByteStrings(DigitBytes, IF calc.length = 1 THEN 0
                                         ELSE DigitBytesNeeded(calc.length)) :
       LET r == get_rand_digit_str(calc.length, bytes)
       IN  calc' = [calc EXCEPT !.stage = "done", !.bytes = bytes, !.st = r.st,
                                !.raw = r.raw, !.s = r.s]
  /\ UNCHANGED hsmvars

NextDigits == DigitsStep

SpecDigits == InitDigits /\ [][NextDigits]_vars

\* ============================================= helpers run beside the module
\* base64.b64encode: the output as alphabet indices 0..63, 64 for "=".
RECURSIVE b64encode(_)
b64encode(b) ==
  IF b = <<>> THEN <<>>
  ELSE LET n == IF Len(b) < 3 THEN Len(b) ELSE 3
           x == b[1] * 65536 + (IF n >= 2 THEN b[2] * 256 ELSE 0) + (IF n >= 3 THEN b[3] ELSE 0)
           q == << x \div 262144, (x \div 4096) % 64, (x \div 64) % 64, x % 64 >>
           g == CASE n = 3 -> q
                  [] n = 2 -> << q[1], q[2], q[3], 64 >>
                  [] n = 1 -> << q[1], q[2], 64, 64 >>
       IN  g \o b64encode(SubSeq(b, n + 1, Len(b)))

\* base64.b64decode of well-formed input.
RECURSIVE b64decode(_)
b64decode(c) ==
  IF Len(c) < 4 THEN <<>>
  ELSE LET v(i) == IF c[i] = 64 THEN 0 ELSE c[i]
           x == v(1) * 262144 + v(2) * 4096 + v(3) * 64 + v(4)
           y == << x \div 65536, (x \div 256) % 256, x % 256 >>
           n == IF c[3] = 64 THEN 1 ELSE IF c[4] = 64 THEN 2 ELSE 3
       IN  SubSeq(y, 1, n) \o b64decode(SubSeq(c, 5, Len(c)))

\* aes_encrypt_b64(key, data), lines 489-491, for the iv geturandom(16) gave.
aes_encrypt_b64(key, data, iv) ==
  LET e == aes_encrypt(key, iv, data)
  IN  IF e.st # "ok" THEN [st |-> e.st, out |-> <<>>]
      ELSE [st |-> "ok", out |-> b64encode(iv \o e.out)]

\* aes_decrypt_b64(key, data_b64), lines 503-507.
aes_decrypt_b64(key, data_b64) ==
  LET data_bin == b64decode(data_b64)
      iv       == SubSeq(data_bin, 1, IF Len(data_bin) < 16 THEN Len(data_bin) ELSE 16)
      encdata  == SubSeq(data_bin, 17, Len(data_bin))
  IN  aes_decrypt(key, iv, encdata)

\* What helper o returns for the inputs c; iv is what geturandom(16) returned
\* to the helper that asked for it.
EnvOutcome(o, c, iv) ==
  CASE o = "aes_encrypt" ->
         LET e == aes_encrypt(c.key, c.iv, c.data)
         IN  [st |-> e.st, val |-> e.out, obj |-> NoObj, flag |-> FALSE]
    [] o = "crypto.aes_decrypt" ->
         LET d == aes_decrypt(c.key, c.iv, c.cipher)
         IN  [st |-> d.st, val |-> d.out, obj |-> NoObj, flag |-> FALSE]
    [] o = "aes_encrypt_b64" ->
         LET e == aes_encrypt_b64(c.key, c.data, iv)
         IN  [st |-> e.st, val |-> e.out, obj |-> NoObj, flag |-> FALSE]
    [] o = "aes_decrypt_b64" ->
         LET d == aes_decrypt_b64(c.key, c.b64)
         IN  [st |-> d.st, val |-> d.out, obj |-> NoObj, flag |-> FALSE]
    [] o = "Sign.sign" ->
         [st |-> "ok", val |-> sign(c.kp, c.SIGN_WITH_RSA, c.msg), obj |-> NoObj,
          flag |-> FALSE]
    [] o = "Sign.verify" ->
         [st |-> "ok", val |-> <<>>, obj |-> NoObj,
          flag |-> verify(c.kp, c.SIGN_WITH_RSA, c.msg, c.signature)]

\* A helper is called; the module handle as it is at the call is remembered.
StartEnv(t) ==
  /\ t \in callers
  /\ calc.fn = "env"
  /\ pc[t] = "idle"
  /\ \E o \in EnvOps :
       /\ op' = [op EXCEPT ![t] = o]
       /\ pc' = [pc EXCEPT ![t] = IF NeedsModule(o) THEN "init_check" ELSE "env"]
  /\ snap' = [snap EXCEPT ![t] = [taken |-> TRUE, ready |-> FALSE, objs |-> objs,
                                  store |-> app_store.obj]]
  /\ UNCHANGED <<calc, config, callers, app_store, objs, arg, hsm, newobj, result, sec, ghost>>

\* The helper's own work, lines 437-507 and 727-772.
EnvStep(t) ==
  /\ t \in callers
  /\ pc[t] = "env"
  /\ LET r == EnvOutcome(op[t], calc, result[t].val)
     IN  Done(t, r.st, r.val, r.obj, r.flag)
  /\ UNCHANGED <<calc, config, callers, app_store, objs, op, arg, hsm, newobj, snap, sec, ghost>>

EnvData == {<<>>, [i \in 1..16 |-> i], [i \in 1..5 |-> 250 + i]}

InitEnv ==
  /\ config \in Configs
  /\ callers = {1}
  /\ app_store = [present |-> FALSE, obj |-> NoObj]
  /\ objs = <<>>
  /\ pc = [t \in Threads |-> "idle"]
  /\ op = [t \in Threads |-> "none"]
  /\ arg = [t \in Threads |-> NoArg]
  /\ hsm = [t \in Threads |-> NoObj]
  /\ newobj = [t \in Threads |-> NoObj]
  /\ result = [t \in Threads |-> NoResult]
  /\ snap = [t \in Threads |-> NoSnap]
  /\ sec = [raw_key |-> <<171, 18>>, kind |-> "EncHex", alive |-> TRUE, del_error |-> FALSE]
             @@ SecretObjInit(StoredVal("EncHex", <<171, 18>>), IV, TRUE)
  /\ ghost = [setupOk |-> FALSE, setupOnReady |-> FALSE, calledUnready |-> FALSE]
  /\ \E data \in EnvData, rsa \in BOOLEAN, kp \in KeyPairs :
       LET key    == [i \in 1..16 |-> 3]
           iv     == [i \in 1..16 |-> (17 * i) % 256]
           cipher == aes_encrypt(key, iv, data).out
           msg    == [kind |-> "text", chars |-> <<233>>]
       IN  calc = [fn |-> "env", key |-> key, iv |-> iv, data |-> data, cipher |-> cipher,
                   b64 |-> b64encode(iv \o cipher), kp |-> kp, SIGN_WITH_RSA |-> rsa,
                   msg |-> msg, signature |-> sign(kp, rsa, msg)]

NextEnv ==
  \/ Next
  \/ \E t \in Threads : StartEnv(t) \/ EnvStep(t)

SpecEnv == InitEnv /\ [][NextEnv]_vars

\* ================================================================== claims
\* The module the store holds, when it holds one.
StoredModuleNotReady ==
  app_store.present /\ app_store.obj # NoObj /\ ~objs[app_store.obj].is_ready

\* C1: on a module that comes up not ready, every completed
\* get_hsm(require_ready=True) has failed with the not-ready error as long as
\* no set_hsm_password call has returned true, and has returned the stored
\* module once one has.
C1_GetHsmFollowsSetup ==
  \A t \in Threads :
    (pc[t] = "done" /\ op[t] = "get_hsm" /\ arg[t].rr /\ config.needs_password) =>
      IF ghost.setupOk
        THEN result[t].st = "ok" /\ result[t].obj # NoObj /\ result[t].obj = app_store.obj
        ELSE result[t].st = "NotReady"

\* C1 witness: a get_hsm(require_ready=True) that returned the module after a
\* successful set_hsm_password on a module that came up not ready.
C1_Witness ==
  \E t \in Threads :
    /\ pc[t] = "done" /\ op[t] = "get_hsm" /\ arg[t].rr /\ config.needs_password
    /\ ghost.setupOk /\ result[t].st = "ok" /\ objs[result[t].obj].readied = 1

\* C2: a set_hsm_password that found the module ready has failed with the
\* already-set-up error and left the module objects and the stored handle as
\* they were; setup_module is never delegated to on a ready module; and no
\* module goes from not ready to ready more than once.
C2_SetPasswordOnce ==
  /\ \A t \in Threads :
       (pc[t] = "done" /\ op[t] = "set_hsm_password" /\ snap[t].taken /\ snap[t].ready) =>
         /\ result[t].st = "AlreadySetUp"
         /\ objs = snap[t].objs
         /\ app_store.obj = snap[t].store
  /\ ~ghost.setupOnReady
  /\ \A o \in DOMAIN objs : objs[o].readied <= 1

\* C2 witness: a second set_hsm_password, refused after the first one made
\* the module ready.
C2_Witness ==
  \E t \in Threads :
    /\ pc[t] = "done" /\ op[t] = "set_hsm_password" /\ snap[t].ready
    /\ result[t].st = "AlreadySetUp" /\ ghost.setupOk
    /\ objs[hsm[t]].readied = 1

\* C3: the module object is constructed at most once, and all callers that
\* got a module got the same one.
C3_ConstructedOnce ==
  /\ Len(objs) <= 1
  /\ \A t, u \in Threads :
       (pc[t] = "done" /\ pc[u] = "done" /\ op[t] = "get_hsm" /\ op[u] = "get_hsm"
        /\ result[t].st = "ok" /\ result[u].st = "ok") => result[t].obj = result[u].obj

\* C4 as stated: with PI_HSM_MODULE unset, get_hsm() fails with the
\* not-initialized error.
C4_UnsetIsNotInitialized ==
  \A t \in Threads :
    (pc[t] = "done" /\ op[t] = "get_hsm" /\ config.PI_HSM_MODULE = "unset") =>
      result[t].st = "NotInitialized"

\* C4 amended: with PI_HSM_MODULE unset, the default module class is
\* constructed; get_hsm never fails with the not-initialized error, it fails
\* with the not-ready error when readiness is required and the default module
\* is not ready, and returns the module otherwise.
C4_UnsetFallsBackToDefault ==
  \A t \in Threads :
    (pc[t] = "done" /\ op[t] = "get_hsm" /\ config.PI_HSM_MODULE = "unset") =>
      /\ result[t].st # "NotInitialized"
      /\ app_store.obj # NoObj
      /\ objs[app_store.obj].cls = "DefaultSecurityModule"
      /\ objs[app_store.obj].params = "file"
      /\ result[t].st = IF arg[t].rr /\ ~objs[app_store.obj].is_ready THEN "NotReady" ELSE "ok"

\* C4 witness: get_hsm() returned the default module with PI_HSM_MODULE unset.
C4_Witness ==
  \E t \in Threads :
    /\ pc[t] = "done" /\ op[t] = "get_hsm" /\ config.PI_HSM_MODULE = "unset"
    /\ arg[t].rr /\ result[t].st = "ok"
    /\ objs[result[t].obj].cls = "DefaultSecurityModule"

\* C5: no module method is ever invoked on a module that is not ready, and
\* every key-bearing operation (the seven functions and the SecretObj
\* operations) that completes while the stored module is not ready has failed
\* with the not-ready error.
C5_NotReadyFailsClosed ==
  /\ ~ghost.calledUnready
  /\ \A t \in Threads :
       (pc[t] = "done" /\ op[t] \in (KeyOps \cup SecOps) /\ StoredModuleNotReady) =>
         result[t].st = "NotReady"

\* C5 witness: encryptPassword, which swallows the module's own exceptions,
\* failed with the not-ready error on a module that is not ready.
C5_Witness ==
  \E t \in Threads :
    /\ pc[t] = "done" /\ op[t] = "encryptPassword" /\ StoredModuleNotReady
    /\ result[t].st = "NotReady"

\* C6: for a handle whose stored value is encrypt(raw_key, iv), a completed
\* compare(candidate) is true exactly when candidate is hex(raw_key).
C6_CompareRecognisesKey ==
  \A t \in Threads :
    (pc[t] = "done" /\ op[t] = "compare" /\ sec.kind = "EncRaw" /\ result[t].st = "ok") =>
      (result[t].flag <=> arg[t].data = hexlify(sec.raw_key))

\* C7: aes_encrypt appends between 1 and 16 padding bytes, each equal to
\* their count, and never fails; aes_decrypt of its output under the same key
\* and iv never fails and returns the data.
C7_AesRoundTrip ==
  calc.fn = "aes" =>
    /\ calc.stage # "failed"
    /\ calc.stage \in {"encrypted", "decrypted"} =>
         LET n == Len(calc.padded) - Len(calc.data)
         IN  /\ n \in 1..16
             /\ SubSeq(calc.padded, 1, Len(calc.data)) = calc.data
             /\ \A i \in (Len(calc.data) + 1)..Len(calc.padded) : calc.padded[i] = n
             /\ Len(calc.ct) = Len(calc.padded)
    /\ calc.stage = "decrypted" => calc.out = calc.data

\* C7 witness: a round trip of 32 bytes of data (an exact multiple of the
\* block size) whose last byte looks like a padding byte.
C7_Witness ==
  /\ calc.fn = "aes" /\ calc.stage = "decrypted"
  /\ Len(calc.data) = 32 /\ calc.data[32] = 1 /\ Len(calc.ct) = 48
  /\ calc.out = calc.data

\* C8: under either signature scheme, verify(m, sign(m)) returns true.
C8_VerifyAcceptsOwnSignature ==
  (calc.fn = "sign" /\ calc.stage = "verified") => calc.r = TRUE

\* The raw-RSA build alone: verify(m, sign(m)) returns true.
RawRsaVerifyAcceptsOwnSignature ==
  (calc.fn = "sign" /\ calc.stage = "verified" /\ calc.SIGN_WITH_RSA) => calc.r = TRUE

\* C9: for integers a < b, randint(a, b) returns r with a <= r < b whatever
\* bytes the module draws.
C9_RandintInRange ==
  (calc.fn = "randint" /\ calc.stage = "done" /\ calc.has_end /\ calc.start < calc.end) =>
    (calc.start <= calc.ret /\ calc.ret < calc.end)

\* C10: get_rand_digit_str(length) returns, for length >= 2, exactly length
\* decimal digits, the drawn number left-padded with zeros or cut to its
\* first length digits; get_rand_digit_str(1) fails and returns no string.
C10_DigitStringLength ==
  (calc.fn = "digits" /\ calc.stage = "done") =>
    /\ calc.length >= 2 =>
         /\ calc.st = "ok"
         /\ Len(calc.s) = calc.length
         /\ \A i \in 1..Len(calc.s) : calc.s[i] \in 48..57
         /\ IF Len(calc.raw) <= calc.length
              THEN /\ SubSeq(calc.s, calc.length - Len(calc.raw) + 1, calc.length) = calc.raw
                   /\ \A i \in 1..(calc.length - Len(calc.raw)) : calc.s[i] = 48
              ELSE calc.s = SubSeq(calc.raw, 1, calc.length)
    /\ calc.length = 1 => (calc.st = "ValueError" /\ calc.s = <<>>)

\* C10 witness: a two-digit string cut from a three-digit number.
C10_Witness ==
  /\ calc.fn = "digits" /\ calc.stage = "done" /\ calc.length = 2
  /\ calc.st = "ok" /\ Len(calc.raw) = 3 /\ Len(calc.s) = 2

AllZero(b) == \A i \in 1..Len(b) : b[i] = 0

\* C11: after a completed hmac_digest or aes_decrypt, a handle with
\* preserve=False holds no key (the materialized buffer is zeroed, the
\* attribute gone) and a handle with preserve=True still holds it; a
\* discarded handle holds only a zeroed buffer, zeroed exactly once.
C11_KeyZeroedOrPreserved ==
  /\ \A t \in Threads :
       (pc[t] = "done" /\ op[t] \in {"hmac_digest", "aes_decrypt"} /\ result[t].st = "ok") =>
         IF sec.preserve
           THEN sec.has_bkey = "Set" /\ sec.bkey = sec.raw_key /\ sec.zeroed = 0
           ELSE /\ sec.has_bkey = "Deleted" /\ sec.zeroed = 1
                /\ Len(sec.bkey) = Len(sec.raw_key) /\ AllZero(sec.bkey)
  /\ ~sec.alive =>
       /\ sec.has_bkey # "Set" /\ AllZero(sec.bkey)
       /\ sec.zeroed = (IF Len(sec.bkey) > 0 THEN 1 ELSE 0)

\* C11 witness: a handle with preserve=True that was used, kept its key and
\* was then discarded, its buffer zeroed.
C11_Witness ==
  /\ sec.preserve /\ ~sec.alive /\ sec.zeroed = 1
  /\ Len(sec.bkey) = Len(sec.raw_key) /\ AllZero(sec.bkey)

\* C13: on a handle with preserve=False whose stored value is the one
\* _setupKey_ reads, every hmac_digest or aes_decrypt call completes normally
\* whenever the module is ready, the calls after the first included, and the
\* discard of the handle raises no error.
C13_HandleStaysUsable ==
  (~sec.preserve /\ sec.kind = "EncHex") =>
    /\ \A t \in Threads :
         (pc[t] = "done" /\ op[t] \in {"hmac_digest", "aes_decrypt"}) =>
           result[t].st \in {"ok", "NotReady"}
    /\ ~sec.del_error

\* C12 as stated: no helper's outcome depends on the module, and none reads
\* or changes the module handle.
C12_HelpersIgnoreModule ==
  \A t \in Threads :
    (pc[t] = "done" /\ op[t] \in EnvOps) =>
      /\ result[t].st # "NotReady"
      /\ app_store.obj = snap[t].store /\ objs = snap[t].objs

\* C12, amended: aes_encrypt, aes_decrypt, aes_decrypt_b64 and the Sign
\* operations return what their arguments determine and leave the module
\* handle as it was, whatever state it is in; aes_encrypt_b64 fetches its iv
\* from the module: it initializes the handle, fails with the not-ready
\* error exactly when the module is not ready, and otherwise returns the
\* envelope of the data under the iv the module gave.
C12_OnlyB64EncryptUsesModule ==
  \A t \in Threads :
    (pc[t] = "done" /\ op[t] \in EnvOps) =>
      IF op[t] # "aes_encrypt_b64"
        THEN /\ result[t] = EnvOutcome(op[t], calc, <<>>)
             /\ app_store.obj = snap[t].store /\ objs = snap[t].objs
        ELSE /\ app_store.present /\ app_store.obj # NoObj
             /\ result[t].st = "NotReady" <=> ~objs[app_store.obj].is_ready
             /\ result[t].st = "ok" <=> objs[app_store.obj].is_ready
             /\ result[t].st = "ok" =>
                  /\ SubSeq(b64decode(result[t].val), 1, 16) \in
                       {[i \in 1..16 |-> rnd] : rnd \in RandBytes}
                  /\ aes_decrypt_b64(calc.key, result[t].val) = [st |-> "ok", out |-> calc.data]

\* C12 witness: aes_decrypt_b64 has returned the data while the stored module
\* is not ready.
C12_Witness ==
  /\ pc[1] = "done" /\ op[1] = "aes_decrypt_b64" /\ StoredModuleNotReady
  /\ result[1].st = "ok" /\ result[1].val = calc.data /\ Len(calc.data) = 5

====
